---- MODULE Spec2Model ----
(***************************************************************************)
(* ReviewBot merge-request review pipeline.                                *)
(*                                                                         *)
(*  - WebhooksService.processMergeRequest: webhook intake, one database    *)
(*    transaction (upsert project, upsert developer, findFirst review,     *)
(*    create review) followed by reviewQueue.add.                          *)
(*  - Bull queue 'review-queue' with the default job options.              *)
(*  - ReviewProcessor.handleReview: the job handler, one action per await  *)
(*    point of the handler.                                                *)
(***************************************************************************)
EXTENDS Integers, Sequences, FiniteSets, TLC

VARIABLES
    enabled,      \* LlmService.enabled, fixed at construction
    projects,     \* committed Project rows (by gitlabProjectId)
    developers,   \* committed Developer rows (by username)
    reviews,      \* committed Review rows, in creation order; the id is the index
    tx,           \* per webhook delivery: position in processMergeRequest
    queue,        \* jobs waiting in 'review-queue'
    failedJobs,   \* jobs Bull moved to the failed set
    exec,         \* per worker: the running handleReview execution
    guard,        \* GitLabWebhookGuard: the configured secret, the last request's
                  \* token and the guard's answer to it
    verifier,     \* IssueVerifier: the last verifyIssue call, what it consulted
                  \* and what it returned
    fileContext,  \* GitLabService.getFileContentWithContext: the last call and
                  \* the FileContentWithContext it returned
    chunk,        \* DiffProcessor.processChunk: the hunk of the last call and
                  \* the chunk built from it
    paths         \* handleReview's two review paths run on one job's answers

vars == <<enabled, projects, developers, reviews, tx, queue, failedJobs, exec, guard,
          verifier, fileContext, chunk, paths>>

---------------------------------------------------------------------------
(* Bounds of the model *)

MaxDeliveries == 2      \* webhook deliveries
MaxIssues == 2          \* issues in one LLM response
MaxChunks == 2          \* chunks one diff yields
ClampIssues == 7        \* length of the one long LLM response: 7 * 15 > 100
MaxTokenLen == 2        \* characters of a token or secret
MaxExtraFiles == 2      \* files of a diff beyond MAX_FILES
MaxFileLen == 2         \* lines of a source file
MaxContextLines == 1    \* the contextLines argument of a file-context fetch
MaxPhrases == 2         \* phrases the Verifier looks for that one message contains
MaxHunkLen == 3         \* lines of a short hunk
MaxHunkContext == 2     \* the contextLines argument of the diff processor

(* Program constants *)

MAX_FILES == 50         \* ReviewProcessor.MAX_FILES
BatchLineLimit == 500   \* totalChangedLines <= 500
JobAttempts == 1        \* Bull's default 'attempts': reviewQueue.add passes no options
ChunkMaxLines == 100    \* processChunk: maxLines
Retries == 3            \* pRetry(..., { retries: 3 })

---------------------------------------------------------------------------
(* Data *)

Deliveries == 1..MaxDeliveries
Workers == {"w1", "w2"}

\* (object_attributes.id, project.id) of the payloads
MRKeys == {<<101, 7>>}
Users == {"alice"}

AcceptedActions == {"opened", "update", "reopen", "open"}
Actions == AcceptedActions \cup {"close", "merge"}

Statuses == {"PENDING", "PROCESSING", "COMPLETED", "FAILED", "SKIPPED"}
Terminal == {"COMPLETED", "FAILED", "SKIPPED"}

Severities == {"critical", "high", "medium", "low"}
InlineSeverities == {"critical", "high", "medium"}

None == <<>>            \* an absent optional value; Some(v) == <<v>>
Some(v) == <<v>>

RECURSIVE Flatten(_)
Flatten(ss) == IF ss = <<>> THEN <<>> ELSE Head(ss) \o Flatten(Tail(ss))

Max(a, b) == IF a >= b THEN a ELSE b

---------------------------------------------------------------------------
(* GitLabWebhookGuard.canActivate *)

\* Characters of header and secret values: two ASCII letters and U+00E9.
Chars == {"a", "b", "e-acute"}

Strings == UNION {[1..n -> Chars] : n \in 0..MaxTokenLen}

\* A header or configuration value: absent, or a string (a sequence of
\* characters; its .length is the number of UTF-16 units, one per character here).
Values == [present : {FALSE}, chars : {<<>>}] \cup [present : {TRUE}, chars : Strings]

\* The UTF-8 bytes of a character
Utf8(c) ==
    CASE c = "a" -> <<97>>
      [] c = "b" -> <<98>>
      [] c = "e-acute" -> <<195, 169>>

\* buf.write(string) into a buffer with `room` bytes left: the bytes of the
\* leading characters that fit whole; the rest of the string is not written.
RECURSIVE Written(_, _)
Written(str, room) ==
    IF str = <<>> \/ Len(Utf8(Head(str))) > room THEN <<>>
    ELSE Utf8(Head(str)) \o Written(Tail(str), room - Len(Utf8(Head(str))))

\* Buffer.alloc(n) then buf.write(str): zero-filled beyond what was written
BufferOf(str, n) ==
    LET bytes == Written(str, n)
    IN [i \in 1..n |-> IF i <= Len(bytes) THEN bytes[i] ELSE 0]

\* !token, !expectedToken: undefined and the empty string are both falsy
Falsy(v) == ~v.present \/ v.chars = <<>>

CanActivate(token, expectedToken) ==
    IF Falsy(token) THEN "unauthorized"
    ELSE IF Falsy(expectedToken) THEN "unauthorized"
    ELSE LET maxLen == Max(Len(token.chars), Len(expectedToken.chars))
             tokenBuf == BufferOf(token.chars, maxLen)
             expectedBuf == BufferOf(expectedToken.chars, maxLen)
             isValid == tokenBuf = expectedBuf
                          /\ Len(token.chars) = Len(expectedToken.chars)
         IN IF isValid THEN "accepted" ELSE "unauthorized"

IdleGuard == [secret |-> [present |-> FALSE, chars |-> <<>>],
              token |-> [present |-> FALSE, chars |-> <<>>], verdict |-> "none"]

\* One request through the guard
GuardRequest ==
    /\ \E token \in Values :
         guard' = [guard EXCEPT !.token = token,
                                !.verdict = CanActivate(token, guard.secret)]
    /\ UNCHANGED <<enabled, verifier, fileContext, chunk, paths, projects, developers, reviews, tx,
                   queue, failedJobs, exec>>

---------------------------------------------------------------------------
(* WebhooksService.processMergeRequest *)

\* tx.review.create({... status: PENDING, reviewContent: {} }); the columns the
\* create does not set take their defaults. writer is no column: it records
\* the id of the job whose update set the status last (0: none yet).
NewReviewKeyedByIid(mr) ==
    [mr |-> <<mr[1] - 100, mr[2]>>, status |-> "PENDING", writer |-> 0, qualityScore |-> None,
     issuesFound |-> 0, suggestionsCount |-> 0,
     reviewContent |-> [tag |-> "empty", issues |-> <<>>]]

NewReview(mr) ==
    [mr |-> mr, status |-> "PENDING", writer |-> 0, qualityScore |-> None, issuesFound |-> 0,
     suggestionsCount |-> 0, reviewContent |-> [tag |-> "empty", issues |-> <<>>]]

\* tx.review.findFirst({ where: { mergeRequestId, projectId } }): the id of the
\* first matching committed row, 0 when there is none.
FindFirst(mr) ==
    LET hits == {i \in 1..Len(reviews) : reviews[i].mr = mr}
    IN IF hits = {} THEN 0 ELSE CHOOSE i \in hits : \A j \in hits : i <= j

\* "Unique constraints to prevent duplicate reviews": an insert of a key that a
\* committed row already has is rejected.
UniqueViolation(mr) == \E i \in 1..Len(reviews) : reviews[i].mr = mr

\* An insert of a key another open transaction has inserted waits for that
\* transaction to end.
InsertBlocked(d, mr) ==
    \E o \in Deliveries \ {d} : tx[o].pc = "commit" /\ tx[o].inserted /\ tx[o].mr = mr

IdleTx == [pc |-> "new", mr |-> <<0, 0>>, user |-> "", found |-> 0,
           inserted |-> FALSE, result |-> 0, enqueue |-> "none"]

\* The skip rules at the top of processMergeRequest.
Skips(wip, action) ==
    wip \/ action \notin AcceptedActions

Deliver(d) ==
    /\ tx[d].pc = "new"
    /\ \A o \in Deliveries : o < d => tx[o].pc # "new"
    /\ \E mr \in MRKeys, user \in Users, action \in Actions, wip \in BOOLEAN :
         tx' = [tx EXCEPT ![d] =
                  IF Skips(wip, action)
                  THEN [@ EXCEPT !.pc = "skipped", !.mr = mr, !.user = user]
                  ELSE [@ EXCEPT !.pc = "upsertProject", !.mr = mr, !.user = user]]
    /\ UNCHANGED <<enabled, guard, verifier, fileContext, chunk, paths, projects, developers, reviews, queue, failedJobs, exec>>

TxUpsertProject(d) ==
    /\ tx[d].pc = "upsertProject"
    /\ tx' = [tx EXCEPT ![d].pc = "upsertDeveloper"]
    /\ UNCHANGED <<enabled, guard, verifier, fileContext, chunk, paths, projects, developers, reviews, queue, failedJobs, exec>>

TxUpsertDeveloper(d) ==
    /\ tx[d].pc = "upsertDeveloper"
    /\ tx' = [tx EXCEPT ![d].pc = "findFirst"]
    /\ UNCHANGED <<enabled, guard, verifier, fileContext, chunk, paths, projects, developers, reviews, queue, failedJobs, exec>>

TxFindFirst(d) ==
    /\ tx[d].pc = "findFirst"
    /\ LET f == FindFirst(tx[d].mr)
       IN tx' = [tx EXCEPT ![d].found = f,
                           ![d].pc = IF f # 0 THEN "commit" ELSE "create"]
    /\ UNCHANGED <<enabled, guard, verifier, fileContext, chunk, paths, projects, developers, reviews, queue, failedJobs, exec>>

TxCreate(d) ==
    /\ tx[d].pc = "create"
    /\ ~InsertBlocked(d, tx[d].mr)
    /\ tx' = [tx EXCEPT ![d] =
                IF UniqueViolation(tx[d].mr)
                THEN [@ EXCEPT !.pc = "error"]          \* rolled back, rethrown
                ELSE [@ EXCEPT !.pc = "commit", !.inserted = TRUE]]
    /\ UNCHANGED <<enabled, guard, verifier, fileContext, chunk, paths, projects, developers, reviews, queue, failedJobs, exec>>

TxCommit(d) ==
    /\ tx[d].pc = "commit"
    /\ projects' = projects \cup {tx[d].mr[2]}
    /\ developers' = developers \cup {tx[d].user}
    /\ reviews' = IF tx[d].inserted THEN Append(reviews, NewReview(tx[d].mr))
                  ELSE reviews
    /\ tx' = [tx EXCEPT ![d].pc = "enqueue",
                        ![d].result = IF tx[d].inserted THEN Len(reviews) + 1
                                      ELSE tx[d].found]
    /\ UNCHANGED <<enabled, guard, verifier, fileContext, chunk, paths, queue, failedJobs, exec>>

\* catch (queueError) { ... } // Don't throw - review was created successfully
EnqueueFailureRethrows(ok) == IF ok THEN "returned" ELSE "error"

AfterEnqueue(ok) == "returned"

\* reviewQueue.add('process-review', {reviewId, ...}) inside its own try/catch
Enqueue(d) ==
    /\ tx[d].pc = "enqueue"
    /\ \E ok \in BOOLEAN :
         /\ queue' = IF ok THEN Append(queue, [id |-> d, reviewId |-> tx[d].result, attemptsMade |-> 0])
                     ELSE queue
         /\ tx' = [tx EXCEPT ![d].pc = AfterEnqueue(ok),
                             ![d].enqueue = IF ok THEN "ok" ELSE "failed"]
    /\ UNCHANGED <<enabled, guard, verifier, fileContext, chunk, paths, projects, developers, reviews, failedJobs, exec>>

\* WebhooksController.handleGitLabWebhook: what the caller gets for a delivery
\* of a Merge Request Hook, once processMergeRequest has ended.
WebhookResponse(t) ==
    CASE t.pc = "skipped" -> [http |-> 200, success |-> TRUE, reviewId |-> None]
      [] t.pc = "returned" -> [http |-> 200, success |-> TRUE, reviewId |-> Some(t.result)]
      [] OTHER -> [http |-> 500, success |-> FALSE, reviewId |-> None]

---------------------------------------------------------------------------
(* Inputs of a job: what the forge and the LLM answer *)

Paths == <<"a.ts", "b.ts">>

\* A chunk as extractChangedLinesWithContext yields it (additions, deletions):
\* two chunks of 250 changed lines sit on the batching limit, 250 + 251 above it.
SmallChunk == [additions |-> 249, deletions |-> 1]
LargeChunk == [additions |-> 250, deletions |-> 1]

\* The numbers of chunks of the files of a diff
ChunkCounts ==
    {cs \in UNION {[1..n -> 0..MaxChunks] : n \in 0..Len(Paths)} :
        (IF Len(cs) = 0 THEN 0 ELSE IF Len(cs) = 1 THEN cs[1] ELSE cs[1] + cs[2]) <= MaxChunks}

\* compare-commits answers: file i has path Paths[i]; a file may carry no
\* diff; the last chunk of the answer may be the large one.
DiffResponses ==
    {[i \in 1..Len(cs) |->
        [new_path |-> Paths[i],
         chunks |-> [k \in 1..cs[i] |->
                       IF large /\ i = Len(cs) /\ k = cs[i] THEN LargeChunk ELSE SmallChunk]]] :
       cs \in ChunkCounts, large \in BOOLEAN}

\* A diff of about MAX_FILES files, each hunk of one changed line or each of
\* 251; the first file carries no hunk, one hunk or several.
TinyChunk == [additions |-> 1, deletions |-> 0]

LargeDiffResponses ==
    {[i \in 1..n |->
        [new_path |-> ToString(i),
         chunks |-> IF i = 1 THEN [k \in 1..first |-> hunk] ELSE <<hunk>>]] :
       n \in {0} \cup (MAX_FILES - 1)..(MAX_FILES + MaxExtraFiles), first \in 0..MaxChunks,
       hunk \in {TinyChunk, LargeChunk}}

SmallDiffResponses ==
    {<<>>,
     <<[new_path |-> "a.ts", chunks |-> <<LargeChunk>>]>>,
     <<[new_path |-> "a.ts", chunks |-> <<SmallChunk>>],
       [new_path |-> "b.ts", chunks |-> <<SmallChunk>>]>>}

\* An issue as the LLM reports it. msg stands for the message class the
\* Verifier routes on: "plain" (no import / definition keyword) or "checked".
IssueKinds(files) ==
    [file : files \ {"unknown"}, severity : Severities, msg : {"plain", "checked"}]
      \cup [file : files \cap {"unknown"}, severity : {"high"}, msg : {"plain"}]

IssueLists(files, n) == UNION {[1..k -> IssueKinds(files)] : k \in 0..n}

ClampList(file) ==
    [i \in 1..ClampIssues |-> [file |-> file, severity |-> "critical", msg |-> "plain"]]

\* Responses of reviewMultipleChunks / reviewChangedLines for a job that has
\* `used` issues so far.
LlmResponses(files, used) ==
    IssueLists(files, Max(0, MaxIssues - used))
      \cup (IF used = 0 THEN {ClampList(CHOOSE f \in files : f # "unknown")} ELSE {})

SmallLlmResponses(files, used) ==
    {<<>>} \cup (IF used = 0
                 THEN {<<[file |-> CHOOSE f \in files : f # "unknown", severity |-> "high",
                          msg |-> "plain"]>>}
                 ELSE {})

\* The answers a call may get: the full range, or the small one
Answers(full, files, used) ==
    IF full THEN LlmResponses(files, used) ELSE SmallLlmResponses(files, used)

---------------------------------------------------------------------------
(* LlmService.reviewMultipleChunks / reviewChangedLines: one call *)

\* What one chat.completions.create invocation may come back with: a network
\* error, no content, a body that is not the JSON asked for, a well-formed body.
EndpointOutcomes == {"error", "empty", "malformed", "ok"}

\* catch (error) { return { summary: 'Error during review', issues: [] } }
LlmFailureRaises(out) == "throw"

OnLlmFailure(out) == "emptyReview"

\* parseReviewResponse / parseBatchedReviewResponse: JSON.parse and the
\* structure test sit in a try whose catch returns issues: [].
ParseResponse(out) == IF out = "ok" THEN "parsed" ELSE "emptyReview"

\* What invocation number `attempt` (1, 2, ...) of a call leads to. pRetry
\* runs the function again after a throw while the number of failed attempts
\* does not exceed `retries`; a body with content ends pRetry, and the parse
\* comes after it.
CallOutcome(attempt, out) ==
    IF out \in {"error", "empty"}
    THEN IF attempt <= Retries THEN "retry" ELSE OnLlmFailure(out)
    ELSE ParseResponse(out)

---------------------------------------------------------------------------
(* Bull queue: a worker takes the next waiting job *)

IdleExec ==
    [pc |-> "idle", job |-> [id |-> 0, reviewId |-> 0, attemptsMade |-> 0],
     diffCount |-> 0, chunks |-> <<>>, skippedFiles |-> 0, totalChangedLines |-> 0,
     shouldBatch |-> FALSE,
     ci |-> 0, pending |-> <<>>, verifiedIssues |-> <<>>, pi |-> 0,
     allIssues |-> <<>>, totalScore |-> 100, filesProcessed |-> 0,
     batchedCalls |-> 0, singleCalls |-> 0, diffFetches |-> 0, fileFetches |-> 0,
     reported |-> 0, verdicts |-> <<>>, log |-> <<>>, inlineFailed |-> 0,
     llmAttempt |-> 0, llmInvocations |-> 0, llmLast |-> "none",
     writes |-> <<>>, error |-> None]

Dequeue(w) ==
    /\ exec[w].pc = "idle"
    /\ queue # <<>>
    /\ exec' = [exec EXCEPT ![w] = [IdleExec EXCEPT !.pc = "start", !.job = Head(queue)]]
    /\ queue' = Tail(queue)
    /\ UNCHANGED <<enabled, guard, verifier, fileContext, chunk, paths, projects, developers, reviews, tx, failedJobs>>

---------------------------------------------------------------------------
(* ReviewProcessor.handleReview *)

\* const severityImpact = { critical: 15, high: 10, medium: 5, low: 2 };
\* totalScore -= severityImpact[issue.severity] || 2
SeverityImpact(sev) ==
    CASE sev = "critical" -> 15
      [] sev = "high" -> 10
      [] sev = "medium" -> 5
      [] sev = "low" -> 2
      [] OTHER -> 2

\* ['critical', 'high', 'medium'].includes(issue.severity)
PostsInlineAnySeverity(issue) == TRUE

PostsInline(issue) == issue.severity \in InlineSeverities

\* totalChangedLines <= 500 && allChunksWithContext.length > 1
ShouldBatchBelowLimit(total, n) == total < BatchLineLimit /\ n > 1

ShouldBatch(total, n) == total <= BatchLineLimit /\ n > 1

\* qualityScore: Math.max(0, totalScore)
UnclampedScore(totalScore) == totalScore

PersistedScore(totalScore) == Max(0, totalScore)

\* IssueVerifier.verifyIssue: a message with no import / definition keyword is
\* never dropped; the verdict on the others depends on the file contents.
VerifierVerdicts(issue) == IF issue.msg = "plain" THEN {TRUE} ELSE BOOLEAN

\* if (verificationResult.isValid) { ... } else { filtered }
RetainsEveryIssue(isValid) == TRUE

Retains(isValid) == isValid

\* GitLabService.postInlineComment catches every error of the forge call.
InlinePostRethrows(ok) == ~ok

InlinePostThrows(ok) == FALSE

RECURSIVE TotalChanged(_)
TotalChanged(chunks) ==
    IF chunks = <<>> THEN 0
    ELSE Head(chunks).additions + Head(chunks).deletions + TotalChanged(Tail(chunks))

RECURSIVE ImpactSum(_)
ImpactSum(issues) ==
    IF issues = <<>> THEN 0
    ELSE SeverityImpact(Head(issues).severity) + ImpactSum(Tail(issues))

\* STEP 1: the chunks of the first MAX_FILES diffs that carry a diff, each
\* with the path of its diff as filename.
CollectChunks(diffs) ==
    LET take == SubSeq(diffs, 1, IF Len(diffs) < MAX_FILES THEN Len(diffs) ELSE MAX_FILES)
    IN Flatten([i \in 1..Len(take) |->
                  [k \in 1..Len(take[i].chunks) |->
                     [filename |-> take[i].new_path,
                      additions |-> take[i].chunks[k].additions,
                      deletions |-> take[i].chunks[k].deletions]]])

ChunkFiles(chunks) == {chunks[i].filename : i \in 1..Len(chunks)}

\* prisma.review.update({ where: { id: reviewId }, data: { status } }) by job jobId
WriteStatus(row, status, jobId) == [row EXCEPT !.status = status, !.writer = jobId]

\* catch (error): update status FAILED
CatchLeavesRow(row, jobId) == row

CatchUpdate(row, jobId) == WriteStatus(row, "FAILED", jobId)

ToCatch(e, step) == [e EXCEPT !.pc = "catch", !.error = Some(step)]

Wrote(e, status) == [e EXCEPT !.writes = Append(@, status)]

\* if (!this.llmService.isEnabled()) { ... SKIPPED; return }
NeverSkips(llmEnabled) == "fetch"

AfterProcessing(llmEnabled) == IF llmEnabled THEN "fetch" ELSE "skip"

\* The summary is posted after the loop over allChunksWithContext has ended.
SummaryInsideLoop(ci, n) == "summary"

AfterChunk(ci, n) == IF ci < n THEN "chunk" ELSE "summary"

\* prisma.review.update({ where: { id }, data: { status: PROCESSING } }), then
\* the isEnabled() test. DbOutcomes: whether an update may be rejected.
HR_Begin(w, DbOutcomes) ==
    /\ exec[w].pc = "start"
    /\ \E ok \in DbOutcomes :
         IF ok
         THEN /\ reviews' = [reviews EXCEPT ![exec[w].job.reviewId] =
                                  WriteStatus(@, "PROCESSING", exec[w].job.id)]
              /\ exec' = [exec EXCEPT ![w] =
                    [Wrote(@, "PROCESSING") EXCEPT !.pc = AfterProcessing(enabled)]]
         ELSE /\ exec' = [exec EXCEPT ![w] = ToCatch(@, "update")]
              /\ UNCHANGED reviews
    /\ UNCHANGED <<enabled, guard, verifier, fileContext, chunk, paths, projects, developers, tx, queue, failedJobs>>

\* LLM disabled: status SKIPPED, return
HR_Skip(w, DbOutcomes) ==
    /\ exec[w].pc = "skip"
    /\ \E ok \in DbOutcomes :
         IF ok
         THEN /\ reviews' = [reviews EXCEPT ![exec[w].job.reviewId] =
                                  WriteStatus(@, "SKIPPED", exec[w].job.id)]
              /\ exec' = [exec EXCEPT ![w] = [Wrote(@, "SKIPPED") EXCEPT !.pc = "returned"]]
         ELSE /\ exec' = [exec EXCEPT ![w] = ToCatch(@, "update")]
              /\ UNCHANGED reviews
    /\ UNCHANGED <<enabled, guard, verifier, fileContext, chunk, paths, projects, developers, tx, queue, failedJobs>>

\* Promise.all([getMRDiffs, getMRDetails]) and, for a non-empty answer, STEP 1
\* (chunks with file context) and STEP 2 (the batching decision).
HR_Fetch(w, Responses) ==
    /\ exec[w].pc = "fetch"
    /\ \E ok \in BOOLEAN, diffs \in Responses :
         LET e == [exec[w] EXCEPT !.diffFetches = @ + 1, !.diffCount = Len(diffs)]
             chunks == CollectChunks(diffs)
             total == TotalChanged(chunks)
             batch == ShouldBatch(total, Len(chunks))
         IN exec' = [exec EXCEPT ![w] =
              IF ~ok THEN ToCatch(e, "fetch")
              ELSE IF Len(diffs) = 0 THEN [e EXCEPT !.pc = "nodiffs"]
              ELSE [e EXCEPT
                      !.chunks = chunks,
                      !.skippedFiles = Max(0, Len(diffs) - MAX_FILES),
                      !.fileFetches = Cardinality({i \in 1..Len(chunks) : chunks[i].additions > 0}),
                      !.totalChangedLines = total,
                      !.shouldBatch = batch,
                      !.ci = 1,
                      !.pc = IF batch THEN "batch"
                             ELSE IF chunks = <<>> THEN "summary" ELSE "chunk"]]
    /\ UNCHANGED <<enabled, guard, verifier, fileContext, chunk, paths, projects, developers, reviews, tx, queue, failedJobs>>

\* No diffs: status COMPLETED with reviewContent { message: 'No changes to review' }
NoDiffsReturnsOnly(row, jobId) == row

NoDiffsUpdate(row, jobId) ==
    [WriteStatus(row, "COMPLETED", jobId) EXCEPT
       !.reviewContent = [tag |-> "message", issues |-> <<>>]]

HR_NoDiffs(w, DbOutcomes) ==
    /\ exec[w].pc = "nodiffs"
    /\ \E ok \in DbOutcomes :
         IF ok
         THEN /\ reviews' = [reviews EXCEPT ![exec[w].job.reviewId] =
                                  NoDiffsUpdate(@, exec[w].job.id)]
              /\ exec' = [exec EXCEPT ![w] = [Wrote(@, "COMPLETED") EXCEPT !.pc = "returned"]]
         ELSE /\ exec' = [exec EXCEPT ![w] = ToCatch(@, "update")]
              /\ UNCHANGED reviews
    /\ UNCHANGED <<enabled, guard, verifier, fileContext, chunk, paths, projects, developers, tx, queue, failedJobs>>

\* STEP 3, batched: one endpoint invocation of the reviewMultipleChunks call
\* over all chunks; the call returns when pRetry ends.
HR_ReviewBatch(w, full, Endpoint) ==
    /\ exec[w].pc = "batch"
    /\ \E out \in Endpoint,
          answer \in Answers(full, ChunkFiles(exec[w].chunks) \cup {"unknown"}, exec[w].reported) :
         LET e == exec[w]
             k == e.llmAttempt + 1
             res == CallOutcome(k, out)
             inv == [e EXCEPT !.llmInvocations = k, !.llmLast = out, !.llmAttempt = 0]
             issues == IF res = "parsed" THEN answer ELSE <<>>
         IN /\ out # "ok" => answer = <<>>
            /\ exec' = [exec EXCEPT ![w] =
                 IF res = "retry" THEN [inv EXCEPT !.llmAttempt = k]
                 ELSE IF res = "throw" THEN ToCatch(inv, "llm")
                 ELSE [inv EXCEPT !.batchedCalls = @ + 1,
                                  !.filesProcessed = Len(e.chunks),
                                  !.reported = @ + Len(issues),
                                  !.pending = issues,
                                  !.pc = IF issues = <<>> THEN "summary" ELSE "batchVerify"]]
    /\ UNCHANGED <<enabled, guard, verifier, fileContext, chunk, paths, projects, developers, reviews, tx, queue, failedJobs>>

\* Batched verification pass, one issue: find the chunk, verify, retain; a
\* retained low issue is scored at once, the others after their inline post.
HR_BatchVerify(w) ==
    /\ exec[w].pc = "batchVerify"
    /\ LET e == exec[w]
           issue == Head(e.pending)
           rest == Tail(e.pending)
           next == IF rest = <<>> THEN "summary" ELSE "batchVerify"
       IN IF issue.file \notin ChunkFiles(e.chunks)
          THEN exec' = [exec EXCEPT ![w] = [e EXCEPT !.pending = rest, !.pc = next]]
          ELSE \E valid \in VerifierVerdicts(issue) :
                 LET v == [e EXCEPT !.verdicts = Append(@, [issue |-> issue, isValid |-> valid])]
                 IN exec' = [exec EXCEPT ![w] =
                      IF ~Retains(valid) THEN [v EXCEPT !.pending = rest, !.pc = next]
                      ELSE IF PostsInline(issue)
                           THEN [v EXCEPT !.allIssues = Append(@, issue), !.pc = "batchPost"]
                           ELSE [v EXCEPT !.allIssues = Append(@, issue),
                                          !.totalScore = @ - SeverityImpact(issue.severity),
                                          !.pending = rest, !.pc = next]]
    /\ UNCHANGED <<enabled, guard, verifier, fileContext, chunk, paths, projects, developers, reviews, tx, queue, failedJobs>>

\* postInlineComment for the issue just retained, then the score adjustment
HR_BatchPost(w) ==
    /\ exec[w].pc = "batchPost"
    /\ \E ok \in BOOLEAN :
         LET e == exec[w]
             issue == Head(e.pending)
             rest == Tail(e.pending)
             posted == [e EXCEPT !.log = Append(@, [kind |-> "inline", issue |-> issue]),
                                 !.inlineFailed = IF ok THEN @ ELSE @ + 1]
         IN exec' = [exec EXCEPT ![w] =
              IF InlinePostThrows(ok) THEN ToCatch(posted, "inline")
              ELSE [posted EXCEPT !.totalScore = @ - SeverityImpact(issue.severity),
                                  !.pending = rest,
                                  !.pc = IF rest = <<>> THEN "summary" ELSE "batchVerify"]]
    /\ UNCHANGED <<enabled, guard, verifier, fileContext, chunk, paths, projects, developers, reviews, tx, queue, failedJobs>>

\* STEP 3, individual: one endpoint invocation of reviewChangedLines for chunk ci
HR_ReviewChunk(w, full, Endpoint) ==
    /\ exec[w].pc = "chunk"
    /\ \E out \in Endpoint,
          answer \in Answers(full, {exec[w].chunks[exec[w].ci].filename}, exec[w].reported) :
         LET e == exec[w]
             k == e.llmAttempt + 1
             res == CallOutcome(k, out)
             inv == [e EXCEPT !.llmInvocations = k, !.llmLast = out, !.llmAttempt = 0]
             issues == IF res = "parsed" THEN answer ELSE <<>>
         IN /\ out # "ok" => answer = <<>>
            /\ exec' = [exec EXCEPT ![w] =
                 IF res = "retry" THEN [inv EXCEPT !.llmAttempt = k]
                 ELSE IF res = "throw" THEN ToCatch(inv, "llm")
                 ELSE [inv EXCEPT !.singleCalls = @ + 1,
                                  !.filesProcessed = @ + 1,
                                  !.reported = @ + Len(issues),
                                  !.pending = issues,
                                  !.verifiedIssues = <<>>,
                                  !.pi = 1,
                                  !.pc = IF issues = <<>> THEN "chunkScore" ELSE "chunkVerify"]]
    /\ UNCHANGED <<enabled, guard, verifier, fileContext, chunk, paths, projects, developers, reviews, tx, queue, failedJobs>>

\* Individual verification pass, one issue of the chunk
HR_ChunkVerify(w) ==
    /\ exec[w].pc = "chunkVerify"
    /\ \E valid \in VerifierVerdicts(Head(exec[w].pending)) :
         LET e == exec[w]
             issue == Head(e.pending)
             rest == Tail(e.pending)
         IN exec' = [exec EXCEPT ![w] =
              [e EXCEPT !.verdicts = Append(@, [issue |-> issue, isValid |-> valid]),
                        !.verifiedIssues = IF Retains(valid) THEN Append(@, issue) ELSE @,
                        !.pending = rest,
                        !.pc = IF rest = <<>> THEN "chunkPost" ELSE "chunkVerify"]]
    /\ UNCHANGED <<enabled, guard, verifier, fileContext, chunk, paths, projects, developers, reviews, tx, queue, failedJobs>>

\* for (const issue of verifiedIssues): push to allIssues, inline post for
\* critical/high/medium
HR_ChunkPost(w) ==
    /\ exec[w].pc = "chunkPost"
    /\ exec[w].pi <= Len(exec[w].verifiedIssues)
    /\ \E ok \in BOOLEAN :
         LET e == exec[w]
             issue == [e.verifiedIssues[e.pi] EXCEPT !.file = e.chunks[e.ci].filename]
             pushed == [e EXCEPT !.allIssues = Append(@, issue), !.pi = @ + 1]
             posted == [pushed EXCEPT !.log = Append(@, [kind |-> "inline", issue |-> issue]),
                                      !.inlineFailed = IF ok THEN @ ELSE @ + 1]
         IN exec' = [exec EXCEPT ![w] =
              IF ~PostsInline(issue) THEN pushed
              ELSE IF InlinePostThrows(ok) THEN ToCatch(posted, "inline")
              ELSE posted]
    /\ UNCHANGED <<enabled, guard, verifier, fileContext, chunk, paths, projects, developers, reviews, tx, queue, failedJobs>>

\* verifiedIssues.forEach(totalScore -= ...), then the next chunk
HR_ChunkScore(w) ==
    /\ \/ exec[w].pc = "chunkScore"
       \/ exec[w].pc = "chunkPost" /\ exec[w].pi > Len(exec[w].verifiedIssues)
    /\ exec' = [exec EXCEPT ![w] =
          [@ EXCEPT !.totalScore = @ - ImpactSum(exec[w].verifiedIssues),
                    !.verifiedIssues = <<>>,
                    !.pi = 0,
                    !.ci = @ + 1,
                    !.pc = AfterChunk(exec[w].ci, Len(exec[w].chunks))]]
    /\ UNCHANGED <<enabled, guard, verifier, fileContext, chunk, paths, projects, developers, reviews, tx, queue, failedJobs>>

\* formatSummaryComment: the 'Large MR Warning' section and its two numbers
SummaryWarning(skippedFiles, filesProcessed) ==
    IF skippedFiles > 0
    THEN [present |-> TRUE, total |-> skippedFiles + filesProcessed, reviewed |-> MAX_FILES]
    ELSE [present |-> FALSE, total |-> 0, reviewed |-> 0]

\* postMRComment(formatSummaryComment(allIssues, totalScore, ...)); it rethrows
HR_Summary(w) ==
    /\ exec[w].pc = "summary"
    /\ \E ok \in BOOLEAN :
         LET e == exec[w]
             posted == [e EXCEPT !.log = Append(@,
                          [kind |-> "summary", issues |-> e.allIssues,
                           score |-> e.totalScore,
                           warning |-> SummaryWarning(e.skippedFiles, e.filesProcessed),
                           ok |-> ok])]
         IN exec' = [exec EXCEPT ![w] =
              IF ok THEN [posted EXCEPT !.pc = "final"] ELSE ToCatch(posted, "summary")]
    /\ UNCHANGED <<enabled, guard, verifier, fileContext, chunk, paths, projects, developers, reviews, tx, queue, failedJobs>>

\* The final update: reviewContent, qualityScore, issuesFound,
\* suggestionsCount, status COMPLETED
HR_Final(w, DbOutcomes) ==
    /\ exec[w].pc = "final"
    /\ \E ok \in DbOutcomes :
         IF ok
         THEN /\ reviews' = [reviews EXCEPT ![exec[w].job.reviewId] =
                    [WriteStatus(@, "COMPLETED", exec[w].job.id) EXCEPT
                              !.reviewContent = [tag |-> "issues", issues |-> exec[w].allIssues],
                              !.qualityScore = Some(PersistedScore(exec[w].totalScore)),
                              !.issuesFound = Len(exec[w].allIssues),
                              !.suggestionsCount = Len(exec[w].allIssues)]]
              /\ exec' = [exec EXCEPT ![w] = [Wrote(@, "COMPLETED") EXCEPT !.pc = "returned"]]
         ELSE /\ exec' = [exec EXCEPT ![w] = ToCatch(@, "update")]
              /\ UNCHANGED reviews
    /\ UNCHANGED <<enabled, guard, verifier, fileContext, chunk, paths, projects, developers, tx, queue, failedJobs>>

\* catch (error): status FAILED, rethrow. A failure of this update is thrown
\* in place of the first error.
HR_Catch(w, DbOutcomes) ==
    /\ exec[w].pc = "catch"
    /\ \E ok \in DbOutcomes :
         IF ok
         THEN /\ reviews' = [reviews EXCEPT ![exec[w].job.reviewId] =
                                  CatchUpdate(@, exec[w].job.id)]
              /\ exec' = [exec EXCEPT ![w] = [Wrote(@, "FAILED") EXCEPT !.pc = "thrown"]]
         ELSE /\ exec' = [exec EXCEPT ![w].pc = "thrown"]
              /\ UNCHANGED reviews
    /\ UNCHANGED <<enabled, guard, verifier, fileContext, chunk, paths, projects, developers, tx, queue, failedJobs>>

\* The handler has settled: Bull removes a completed job; a failed job is
\* retried while attemptsMade < attempts, else it goes to the failed set.
HR_Settle(w) ==
    /\ exec[w].pc \in {"returned", "thrown"}
    /\ LET job == [exec[w].job EXCEPT !.attemptsMade = @ + 1]
       IN IF exec[w].pc = "thrown" /\ job.attemptsMade < JobAttempts
          THEN queue' = Append(queue, job) /\ UNCHANGED failedJobs
          ELSE /\ failedJobs' = failedJobs \cup (IF exec[w].pc = "thrown" THEN {job.reviewId} ELSE {})
               /\ UNCHANGED queue
    /\ exec' = [exec EXCEPT ![w] = IdleExec]
    /\ UNCHANGED <<enabled, guard, verifier, fileContext, chunk, paths, projects, developers, reviews, tx>>

---------------------------------------------------------------------------
(* GitLabService.getFileContentWithContext *)

Min(a, b) == IF a <= b THEN a ELSE b

\* Lines of a source file, by what the readers of a file look for in them: an
\* import statement that mentions the name an issue is about, another import
\* statement, a declaration of that name, a comment, any other code.
ImportLines == {"import name", "import other"}
SourceLines == ImportLines \cup {"const name", "code"}
FileLines == SourceLines \cup {"// comment"}

\* Array.prototype.slice(from, to) for 0 <= from and 0 <= to <= length
Slice(lines, from, to) == IF to <= from THEN <<>> ELSE SubSeq(lines, from + 1, to)

\* The scan of extractImports from line i on: blank and comment lines are
\* passed over, an import line is kept, and the third consecutive line that is
\* neither ends the scan; at most the first 50 lines are read.
RECURSIVE ScanImports(_, _, _, _)
ScanImports(lines, i, consecutiveNonImports, imports) ==
    IF i > Min(Len(lines), 50) THEN imports
    ELSE IF lines[i] = "// comment"
         THEN ScanImports(lines, i + 1, consecutiveNonImports, imports)
    ELSE IF lines[i] \in ImportLines
         THEN ScanImports(lines, i + 1, 0, Append(imports, lines[i]))
    ELSE IF consecutiveNonImports + 1 >= 3 THEN imports
    ELSE ScanImports(lines, i + 1, consecutiveNonImports + 1, imports)

extractImports(lines) == ScanImports(lines, 1, 0, <<>>)

\* What the catch block of getFileContentWithContext returns
FailedFileContext(lineNumber) ==
    [lines |-> <<>>, startLineNumber |-> 0, targetLineNumber |-> lineNumber,
     endLineNumber |-> 0, totalLines |-> 0, imports |-> <<>>]

\* file is None when RepositoryFiles.show raises, Some(lines) otherwise
getFileContentWithContext(file, lineNumber, contextLines) ==
    IF file = None THEN FailedFileContext(lineNumber)
    ELSE LET lines == file[1]
             startLine == Max(0, lineNumber - contextLines - 1)
             endLine == Min(Len(lines), lineNumber + contextLines)
         IN [lines |-> Slice(lines, startLine, endLine),
             startLineNumber |-> startLine + 1,
             targetLineNumber |-> lineNumber,
             endLineNumber |-> endLine,
             totalLines |-> Len(lines),
             imports |-> extractImports(lines)]

\* content.split('\n') has at least one element
Files(kinds) == UNION {[1..n -> kinds] : n \in 1..MaxFileLen}

IdleFileContext == [file |-> None, lineNumber |-> 0, contextLines |-> 0,
                    called |-> FALSE, result |-> FailedFileContext(0)]

\* One call of getFileContentWithContext on the file drawn at the start
FetchFileContext ==
    /\ ~fileContext.called
    /\ fileContext' = [fileContext EXCEPT
                         !.called = TRUE,
                         !.result = getFileContentWithContext(fileContext.file,
                                      fileContext.lineNumber, fileContext.contextLines)]
    /\ UNCHANGED <<enabled, guard, verifier, chunk, paths, projects, developers, reviews, tx,
                   queue, failedJobs, exec>>

---------------------------------------------------------------------------
(* IssueVerifier *)

IssueTypes == {"security", "performance", "logic", "style"}

\* The phrases verifyIssue and verifyImportIssue search the lowercased message
\* for. A message is the set of those it contains, together with the words
\* the two name extractors can find in it.
Phrases == {"import", "not imported", "missing import", "cannot find", "cannot find name",
            "not defined", "undefined", "not declared", "duplicate"}

\* A string that contains 'not imported' contains 'import', and so on
SubstringClosed(ps) ==
    /\ "not imported" \in ps => "import" \in ps
    /\ "missing import" \in ps => "import" \in ps
    /\ "cannot find name" \in ps => "cannot find" \in ps

PhraseSets == {ps \in SUBSET Phrases : SubstringClosed(ps) /\ Cardinality(ps) <= MaxPhrases}

\* quoted: the message has a quoted identifier; capital, lower: it has a word
\* that starts with an upper-case or a lower-case letter
Messages == {m \in [phrases : PhraseSets, quoted : BOOLEAN, capital : BOOLEAN, lower : BOOLEAN] :
               m.quoted => ~m.capital /\ ~m.lower}

Issues == [type : IssueTypes, message : Messages, line : {1}]

Includes(message, phrase) == phrase \in message.phrases

isImportIssue(message) ==
    \/ Includes(message, "import")
    \/ Includes(message, "not imported")
    \/ Includes(message, "missing import")
    \/ Includes(message, "cannot find")

isDefinitionIssue(message) ==
    \/ Includes(message, "not defined")
    \/ Includes(message, "undefined")
    \/ Includes(message, "not declared")
    \/ Includes(message, "cannot find name")

extractImportName(message) ==
    IF message.quoted THEN Some("quoted")
    ELSE IF message.capital THEN Some("capitalised")
    ELSE None

extractIdentifier(message) ==
    IF message.quoted THEN Some("quoted")
    ELSE IF message.lower THEN Some("lower-case")
    ELSE None

\* importStatement.includes(importName): the text mentions the name
matchesImport(text) == text \in {"import name", "const name"}

matchesDefinition(line) == line = "const name"

\* A verification result and the route to it: which path handled the issue,
\* what the path looked at, and how its forge fetch (if any) ended.
Verdict(isValid, confidence, path, consulted, fetch) ==
    [isValid |-> isValid, confidence |-> confidence, path |-> path,
     consulted |-> consulted, fetch |-> fetch]

verifyDuplicateImportClaim(context) ==
    LET imports == context.fileContext.imports
        count == Cardinality({i \in 1..Len(imports) : matchesImport(imports[i])})
    IN IF Len(imports) = 0 THEN Verdict(TRUE, "low", "import", {"imports"}, "none")
       ELSE IF count <= 1 THEN Verdict(FALSE, "high", "import", {"imports"}, "none")
       ELSE Verdict(TRUE, "high", "import", {"imports"}, "none")

\* getFileContent raises when the fetch fails; verifyImportIssue catches it
verifyImportIssue(issue, context, file) ==
    LET imports == context.fileContext.imports
    IN IF extractImportName(issue.message) = None
       THEN Verdict(TRUE, "low", "import", {}, "none")
       ELSE IF Includes(issue.message, "duplicate") THEN verifyDuplicateImportClaim(context)
       ELSE IF Len(imports) > 0 /\ \E i \in 1..Len(imports) : matchesImport(imports[i])
            THEN Verdict(FALSE, "high", "import", {"imports"}, "none")
       ELSE IF file = None
            THEN Verdict(TRUE, "low", "import", {"imports", "forge"}, "failed")
       ELSE IF \E i \in 1..Len(file[1]) : matchesImport(file[1][i])
            THEN Verdict(FALSE, "high", "import", {"imports", "forge"}, "ok")
       ELSE Verdict(TRUE, "high", "import", {"imports", "forge"}, "ok")

\* getFileContentWithContext never raises: the catch of verifyDefinitionIssue
\* is not reached, and a failed fetch is read as an empty extended context.
verifyDefinitionIssue(issue, context, file) ==
    LET lines == context.fileContext.lines
        extendedContext == getFileContentWithContext(file, issue.line, 50)
        fetch == IF file = None THEN "failed" ELSE "ok"
    IN IF extractIdentifier(issue.message) = None
       THEN Verdict(TRUE, "low", "definition", {}, "none")
       ELSE IF Len(lines) > 0 /\ \E i \in 1..Len(lines) : matchesDefinition(lines[i])
            THEN Verdict(FALSE, "high", "definition", {"lines"}, "none")
       ELSE IF \E i \in 1..Len(extendedContext.lines) :
                    matchesDefinition(extendedContext.lines[i])
            THEN Verdict(FALSE, "high", "definition", {"lines", "forge"}, fetch)
       ELSE IF \E i \in 1..Len(extendedContext.imports) :
                    extendedContext.imports[i] = "import name"
            THEN Verdict(FALSE, "high", "definition", {"lines", "forge"}, fetch)
       ELSE Verdict(TRUE, "high", "definition", {"lines", "forge"}, fetch)

verifyIssue(issue, context, file) ==
    IF isImportIssue(issue.message) THEN verifyImportIssue(issue, context, file)
    ELSE IF isDefinitionIssue(issue.message) THEN verifyDefinitionIssue(issue, context, file)
    ELSE IF issue.type = "security" \/ issue.type = "performance"
         THEN Verdict(TRUE, "high", "trusted", {}, "none")
    ELSE Verdict(TRUE, "medium", "unverified", {}, "none")

IdleVerifier == [issue |-> [type |-> "style",
                            message |-> [phrases |-> {}, quoted |-> FALSE,
                                         capital |-> FALSE, lower |-> FALSE],
                            line |-> 1],
                 file |-> <<"code">>,
                 context |-> [fileContext |-> FailedFileContext(1)],
                 called |-> FALSE,
                 result |-> Verdict(TRUE, "medium", "unverified", {}, "none")]

\* One call of verifyIssue; the forge answers the file or fails
VerifyIssue ==
    /\ ~verifier.called
    /\ \E fetched \in BOOLEAN :
         verifier' = [verifier EXCEPT
                        !.called = TRUE,
                        !.result = verifyIssue(verifier.issue, verifier.context,
                                     IF fetched THEN Some(verifier.file) ELSE None)]
    /\ UNCHANGED <<enabled, guard, fileContext, chunk, paths, projects, developers, reviews, tx,
                   queue, failedJobs, exec>>

---------------------------------------------------------------------------
(* DiffProcessor.processChunk *)

ChangeTypes == {"add", "del", "normal"}
Contents == {"a", "b"}

\* The changes of a parsed hunk whose new-file range starts at line 1: an
\* added line carries its line number in the new file, which added and
\* unchanged lines advance.
Hunk(kinds) ==
    [i \in 1..Len(kinds) |->
       [type |-> kinds[i].type, content |-> kinds[i].content,
        ln |-> 1 + Cardinality({j \in 1..(i - 1) : kinds[j].type # "del"})]]

ShortHunks ==
    {Hunk(kinds) : kinds \in UNION {[1..n -> [type : ChangeTypes, content : Contents]] :
                                      n \in 0..MaxHunkLen}}

\* Hunks of added lines only, about as long as the cap on the chunk text
LongHunks ==
    {Hunk([i \in 1..n |-> [type |-> "add", content |-> "a"]]) :
       n \in (ChunkMaxLines - 1)..(ChunkMaxLines + 1)}

\* The elements of a set of numbers in ascending order
RECURSIVE Ascending(_)
Ascending(S) ==
    IF S = {} THEN <<>>
    ELSE LET m == CHOOSE x \in S : \A y \in S : x <= y
         IN <<m>> \o Ascending(S \ {m})

\* One line of the chunk text: the mark, the content, and the hunk line
\* (1-based) it was pushed for
Entry(lines, j, mark) == [mark |-> mark, content |-> lines[j].content, from |-> j]

\* "Add context before": the unchanged lines among the contextLines lines
\* before line i that were not pushed yet
ContextBefore(lines, contextLines, i, addedIndices) ==
    Ascending({j \in Max(1, i - contextLines)..(i - 1) :
                 j \notin addedIndices /\ lines[j].type = "normal"})

\* "Add context after", from line j to line last: a line pushed before is
\* passed over, an unchanged line is pushed, a changed line ends the loop
RECURSIVE ContextAfter(_, _, _, _)
ContextAfter(lines, j, last, addedIndices) ==
    IF j > last THEN <<>>
    ELSE IF j \in addedIndices THEN ContextAfter(lines, j + 1, last, addedIndices)
    ELSE IF lines[j].type = "normal"
         THEN <<j>> \o ContextAfter(lines, j + 1, last, addedIndices \cup {j})
    ELSE <<>>

Range(seq) == {seq[k] : k \in 1..Len(seq)}

\* One iteration of the loop of processChunk, for line i
ProcessLine(lines, contextLines, i, acc) ==
    IF lines[i].type = "add"
    THEN LET before == ContextBefore(lines, contextLines, i, acc.addedIndices)
             added == acc.addedIndices \cup Range(before) \cup {i}
             after == ContextAfter(lines, i + 1, Min(Len(lines), i + contextLines), added)
         IN [acc EXCEPT
               !.additions = @ + 1,
               !.hasChanges = TRUE,
               !.changedLines = Append(@, lines[i].ln),
               !.result = @ \o [k \in 1..Len(before) |-> Entry(lines, before[k], " ")]
                            \o <<Entry(lines, i, "+")>>
                            \o [k \in 1..Len(after) |-> Entry(lines, after[k], " ")],
               !.addedIndices = added \cup Range(after)]
    ELSE IF lines[i].type = "del"
         THEN [acc EXCEPT !.deletions = @ + 1,
                          !.hasChanges = TRUE,
                          !.result = Append(@, Entry(lines, i, "-")),
                          !.addedIndices = @ \cup {i}]
    ELSE acc

\* The iterations for lines from..to, in order. The range is halved, and the
\* first half is evaluated (its addedIndices is a set) before the second is
\* entered, so that a long hunk is evaluated without deep nesting.
RECURSIVE ProcessLines(_, _, _, _, _)
ProcessLines(lines, contextLines, from, to, acc) ==
    IF from > to THEN acc
    ELSE IF from = to THEN ProcessLine(lines, contextLines, from, acc)
    ELSE LET mid == (from + to) \div 2
             half == ProcessLines(lines, contextLines, from, mid, acc)
         IN IF half.addedIndices \subseteq 1..Len(lines)
            THEN ProcessLines(lines, contextLines, mid + 1, to, half)
            ELSE half

\* content: the lines that result.slice(0, maxLines).join('\n') joins
processChunk(lines, contextLines) ==
    LET acc == ProcessLines(lines, contextLines, 1, Len(lines),
                 [result |-> <<>>, changedLines |-> <<>>, additions |-> 0,
                  deletions |-> 0, hasChanges |-> FALSE, addedIndices |-> {}])
    IN [content |-> Slice(acc.result, 0, Min(Len(acc.result), ChunkMaxLines)),
        hasChanges |-> acc.hasChanges,
        additions |-> acc.additions,
        deletions |-> acc.deletions,
        changedLines |-> acc.changedLines]

IdleChunk == [changes |-> <<>>, contextLines |-> 0, called |-> FALSE,
              processed |-> processChunk(<<>>, 0)]

\* One call of processChunk on the hunk drawn at the start
ProcessChunk ==
    /\ ~chunk.called
    /\ chunk' = [chunk EXCEPT
                   !.called = TRUE,
                   !.processed = processChunk(chunk.changes, chunk.contextLines)]
    /\ UNCHANGED <<enabled, guard, verifier, fileContext, paths, projects, developers, reviews,
                   tx, queue, failedJobs, exec>>

---------------------------------------------------------------------------
(* handleReview, STEP 3: the batched and the individual path on one job *)

\* The chunks of a job with one hunk in each of two files
TwoChunks == [i \in 1..Len(Paths) |-> [filename |-> Paths[i]]]

\* What the two paths have in hand when their loops end
PathStart == [allIssues |-> <<>>, inline |-> <<>>, totalScore |-> 100]

PathOutcome(acc) ==
    [allIssues |-> acc.allIssues, inline |-> acc.inline,
     qualityScore |-> PersistedScore(acc.totalScore), issuesFound |-> Len(acc.allIssues)]

\* totalScore -= severityImpact[issue.severity] || 2, inside the loop over
\* the batched issues
BatchedIssueUnscored(issue) == 0

BatchedImpact(issue) == SeverityImpact(issue.severity)

\* The verification, inline post and score adjustment of one batched issue
ReviewIssue(acc, issue, isValid) ==
    IF Retains(isValid)
    THEN [allIssues |-> Append(acc.allIssues, issue),
          inline |-> IF PostsInline(issue) THEN Append(acc.inline, issue) ELSE acc.inline,
          totalScore |-> acc.totalScore - BatchedImpact(issue)]
    ELSE acc

\* for (const issue of batchedResult.issues): an issue whose file names no
\* chunk is passed over
RECURSIVE BatchedLoop(_, _, _, _)
BatchedLoop(chunks, issues, dropped, acc) ==
    IF issues = <<>> THEN acc
    ELSE LET issue == Head(issues)
         IN BatchedLoop(chunks, Tail(issues), dropped,
              IF issue.file \notin ChunkFiles(chunks) THEN acc
              ELSE ReviewIssue(acc, issue, issue \notin dropped))

batchedPath(chunks, issues, dropped) ==
    PathOutcome(BatchedLoop(chunks, issues, dropped, PathStart))

\* An issue of reviewChangedLines carries no file; the issues the endpoint
\* reports for one file are those the batched answer carries for it
WithoutFile(issue) == [severity |-> issue.severity, msg |-> issue.msg]

ReportedFor(issues, filename) ==
    LET named(issue) == issue.file = filename
        mine == SelectSeq(issues, named)
    IN [k \in 1..Len(mine) |-> WithoutFile(mine[k])]

\* { ...issue, file: chunk.filename }
WithFile(issue, filename) ==
    [file |-> filename, severity |-> issue.severity, msg |-> issue.msg]

\* for (const issue of verifiedIssues)
RECURSIVE VerifiedLoop(_, _, _)
VerifiedLoop(filename, verifiedIssues, acc) ==
    IF verifiedIssues = <<>> THEN acc
    ELSE VerifiedLoop(filename, Tail(verifiedIssues),
           [acc EXCEPT
              !.allIssues = Append(@, WithFile(Head(verifiedIssues), filename)),
              !.inline = IF PostsInline(Head(verifiedIssues))
                         THEN Append(@, WithFile(Head(verifiedIssues), filename)) ELSE @])

\* for (const chunk of allChunksWithContext)
RECURSIVE IndividualLoop(_, _, _, _)
IndividualLoop(chunks, issues, dropped, acc) ==
    IF chunks = <<>> THEN acc
    ELSE LET filename == Head(chunks).filename
             IsValid(issue) == Retains(WithFile(issue, filename) \notin dropped)
             verifiedIssues == SelectSeq(ReportedFor(issues, filename), IsValid)
             posted == VerifiedLoop(filename, verifiedIssues, acc)
         IN IndividualLoop(Tail(chunks), issues, dropped,
              [posted EXCEPT !.totalScore = @ - ImpactSum(verifiedIssues)])

individualPath(chunks, issues, dropped) ==
    PathOutcome(IndividualLoop(chunks, issues, dropped, PathStart))

IdlePaths == [chunks |-> <<>>, issues |-> <<>>, dropped |-> {}, ran |-> FALSE,
              batched |-> PathOutcome(PathStart), individual |-> PathOutcome(PathStart)]

\* Both paths on the answers drawn at the start
ReviewBothPaths ==
    /\ ~paths.ran
    /\ paths' = [paths EXCEPT
                   !.ran = TRUE,
                   !.batched = batchedPath(paths.chunks, paths.issues, paths.dropped),
                   !.individual = individualPath(paths.chunks, paths.issues, paths.dropped)]
    /\ UNCHANGED <<enabled, guard, verifier, fileContext, chunk, projects, developers, reviews,
                   tx, queue, failedJobs, exec>>

---------------------------------------------------------------------------
(* Specifications *)

Init ==
    /\ enabled \in BOOLEAN
    /\ guard = IdleGuard
    /\ verifier = IdleVerifier
    /\ fileContext = IdleFileContext
    /\ chunk = IdleChunk
    /\ paths = IdlePaths
    /\ projects = {}
    /\ developers = {}
    /\ reviews = <<>>
    /\ tx = [d \in Deliveries |-> IdleTx]
    /\ queue = <<>>
    /\ failedJobs = {}
    /\ exec = [w \in Workers |-> IdleExec]

Intake ==
    \E d \in Deliveries :
        \/ Deliver(d)
        \/ TxUpsertProject(d)
        \/ TxUpsertDeveloper(d)
        \/ TxFindFirst(d)
        \/ TxCreate(d)
        \/ TxCommit(d)
        \/ Enqueue(d)

Handle(w, Responses, full, DbOutcomes, Endpoint) ==
    \/ HR_Begin(w, DbOutcomes)
    \/ HR_Skip(w, DbOutcomes)
    \/ HR_Fetch(w, Responses)
    \/ HR_NoDiffs(w, DbOutcomes)
    \/ HR_ReviewBatch(w, full, Endpoint)
    \/ HR_BatchVerify(w)
    \/ HR_BatchPost(w)
    \/ HR_ReviewChunk(w, full, Endpoint)
    \/ HR_ChunkVerify(w)
    \/ HR_ChunkPost(w)
    \/ HR_ChunkScore(w)
    \/ HR_Summary(w)
    \/ HR_Final(w, DbOutcomes)
    \/ HR_Catch(w, DbOutcomes)

Next ==
    \/ Intake
    \/ \E w \in Workers : Dequeue(w) \/ HR_Settle(w)
    \/ \E w \in Workers : Handle(w, SmallDiffResponses, FALSE, BOOLEAN, {"ok"})

Spec == Init /\ [][Next]_vars

\* The same system with every update of the Review row succeeding.
ReliableNext ==
    \/ Intake
    \/ \E w \in Workers : Dequeue(w) \/ HR_Settle(w)
    \/ \E w \in Workers : Handle(w, SmallDiffResponses, FALSE, {TRUE}, {"ok"})

ReliableSpec == Init /\ [][ReliableNext]_vars

\* One job in detail: the state after one accepted delivery, one worker, and
\* the full range of forge and LLM answers.
JobInit ==
    /\ enabled \in BOOLEAN
    /\ guard = IdleGuard
    /\ verifier = IdleVerifier
    /\ fileContext = IdleFileContext
    /\ chunk = IdleChunk
    /\ paths = IdlePaths
    /\ projects = {7}
    /\ developers = {"alice"}
    /\ reviews = <<NewReview(<<101, 7>>)>>
    /\ tx = [d \in Deliveries |->
               IF d = 1 THEN [IdleTx EXCEPT !.pc = "returned", !.mr = <<101, 7>>,
                                            !.user = "alice", !.inserted = TRUE, !.result = 1,
                                            !.enqueue = "ok"]
               ELSE IdleTx]
    /\ queue = <<[id |-> 1, reviewId |-> 1, attemptsMade |-> 0]>>
    /\ failedJobs = {}
    /\ exec = [w \in Workers |-> IdleExec]

JobNext ==
    \/ Dequeue("w1")
    \/ Handle("w1", DiffResponses, TRUE, BOOLEAN, {"ok"})
    \/ HR_Settle("w1")

JobSpec == JobInit /\ [][JobNext]_vars

\* The guard alone: any configured secret, any sequence of requests.
GuardInit ==
    /\ enabled = TRUE
    /\ projects = {}
    /\ developers = {}
    /\ reviews = <<>>
    /\ tx = [d \in Deliveries |-> IdleTx]
    /\ queue = <<>>
    /\ failedJobs = {}
    /\ exec = [w \in Workers |-> IdleExec]
    /\ \E secret \in Values : guard = [IdleGuard EXCEPT !.secret = secret]
    /\ verifier = IdleVerifier
    /\ fileContext = IdleFileContext
    /\ chunk = IdleChunk
    /\ paths = IdlePaths

GuardNext == GuardRequest

GuardSpec == GuardInit /\ [][GuardNext]_vars

\* One job for a merge request of about MAX_FILES files.
LargeNext ==
    \/ Dequeue("w1")
    \/ Handle("w1", LargeDiffResponses, FALSE, BOOLEAN, {"ok"})
    \/ HR_Settle("w1")

LargeSpec == JobInit /\ [][LargeNext]_vars

\* One job with an endpoint that may fail or answer badly on any invocation.
LlmNext ==
    \/ Dequeue("w1")
    \/ Handle("w1", SmallDiffResponses, FALSE, {TRUE}, EndpointOutcomes)
    \/ HR_Settle("w1")

LlmSpec == JobInit /\ [][LlmNext]_vars

\* The rest of the system at rest, for the specifications of one component
AtRest ==
    /\ enabled = TRUE
    /\ guard = IdleGuard
    /\ projects = {}
    /\ developers = {}
    /\ reviews = <<>>
    /\ tx = [d \in Deliveries |-> IdleTx]
    /\ queue = <<>>
    /\ failedJobs = {}
    /\ exec = [w \in Workers |-> IdleExec]

\* getFileContentWithContext alone: any short file or a failing fetch, any
\* target line from 0 to one past the end, any contextLines.
FileContextInit ==
    /\ AtRest
    /\ verifier = IdleVerifier
    /\ chunk = IdleChunk
    /\ paths = IdlePaths
    /\ \E file \in {None} \cup {Some(f) : f \in Files(FileLines)},
          lineNumber \in 0..(MaxFileLen + 1), contextLines \in 0..MaxContextLines :
         fileContext = [IdleFileContext EXCEPT !.file = file, !.lineNumber = lineNumber,
                                               !.contextLines = contextLines]

FileContextNext == FetchFileContext

FileContextSpec == FileContextInit /\ [][FileContextNext]_vars

\* The Verifier alone: any issue, any short file, with the file context of
\* the chunk fetched (10 lines around its first changed line, line 1) or failed.
VerifierInit ==
    /\ AtRest
    /\ fileContext = IdleFileContext
    /\ chunk = IdleChunk
    /\ paths = IdlePaths
    /\ \E issue \in Issues, file \in Files(SourceLines), fetched \in BOOLEAN :
         verifier = [IdleVerifier EXCEPT
                       !.issue = issue,
                       !.file = file,
                       !.context = [fileContext |->
                                      getFileContentWithContext(
                                        IF fetched THEN Some(file) ELSE None, 1, 10)]]

VerifierNext == VerifyIssue

VerifierSpec == VerifierInit /\ [][VerifierNext]_vars

\* processChunk alone: any short hunk, or a long hunk of added lines.
ChunkInit ==
    /\ AtRest
    /\ verifier = IdleVerifier
    /\ fileContext = IdleFileContext
    /\ paths = IdlePaths
    /\ \E changes \in ShortHunks \cup LongHunks, contextLines \in 0..MaxHunkContext :
         chunk = [IdleChunk EXCEPT !.changes = changes, !.contextLines = contextLines]

ChunkNext == ProcessChunk

ChunkSpec == ChunkInit /\ [][ChunkNext]_vars

\* The two review paths side by side: any batched answer about the two
\* chunks' files, any verdicts on the issues the Verifier checks.
PathsInit ==
    /\ AtRest
    /\ verifier = IdleVerifier
    /\ fileContext = IdleFileContext
    /\ chunk = IdleChunk
    /\ \E issues \in IssueLists(ChunkFiles(TwoChunks), MaxIssues) :
         \E dropped \in SUBSET {issues[k] : k \in 1..Len(issues)} :
            /\ \A issue \in dropped : FALSE \in VerifierVerdicts(issue)
            /\ paths = [IdlePaths EXCEPT !.chunks = TwoChunks, !.issues = issues,
                                         !.dropped = dropped]

PathsNext == ReviewBothPaths

PathsSpec == PathsInit /\ [][PathsNext]_vars

---------------------------------------------------------------------------
(* Claims *)

Last(s) == s[Len(s)]

RowsOf(mr) == {i \in 1..Len(reviews) : reviews[i].mr = mr}

\* The deliveries that passed the skip rules and whose processMergeRequest
\* call has ended (returned the review or raised).
Ended(d) == tx[d].pc \in {"returned", "error"}

\* C1: once an accepted delivery for (mergeRequestId, projectId) has been
\* processed, exactly one Review row has that key, and at no time are there
\* two, however the transactions of the deliveries interleave.
C1_OneReviewPerMergeRequest ==
    \A mr \in MRKeys :
        /\ Cardinality(RowsOf(mr)) <= 1
        /\ (\E d \in Deliveries : Ended(d) /\ tx[d].mr = mr) => Cardinality(RowsOf(mr)) = 1

\* Two deliveries of one merge request whose transactions overlapped: both
\* looked the review up before either committed, one created it, the other
\* was rejected.
C1_Witness ==
    \E d, o \in Deliveries :
        /\ d # o /\ tx[d].mr = tx[o].mr
        /\ tx[d].pc = "returned" /\ tx[d].inserted
        /\ tx[o].pc = "error" /\ tx[o].found = 0

AllowedTransitions ==
    {<<"PENDING", "PROCESSING">>, <<"PROCESSING", "COMPLETED">>,
     <<"PROCESSING", "SKIPPED">>, <<"PROCESSING", "FAILED">>}

\* C2: every change of a Review's status goes along
\* PENDING -> PROCESSING -> {COMPLETED, SKIPPED, FAILED}.
C2_StatusTransitions ==
    [][\A i \in 1..Len(reviews) :
          reviews'[i].status # reviews[i].status
            => <<reviews[i].status, reviews'[i].status>> \in AllowedTransitions]_vars

\* The status writes of handleReview in a step: <<worker, status written>>
StatusWrites ==
    {w \in Workers : /\ exec'[w].job = exec[w].job
                     /\ Len(exec'[w].writes) = Len(exec[w].writes) + 1}

\* C3: handleReview writes COMPLETED or FAILED only onto a Review whose
\* status is PROCESSING.
C3_TerminalWriteFromProcessing ==
    [][\A w \in StatusWrites :
          Last(exec'[w].writes) \in {"COMPLETED", "FAILED"}
            => reviews[exec[w].job.reviewId].status = "PROCESSING"]_vars

\* C4: a write of COMPLETED leaves the Review with a qualityScore in 0..100
\* and with issuesFound equal to the number of issues the writing execution
\* retained.
C4_CompletedScoreAndCount ==
    [][\A w \in StatusWrites :
          Last(exec'[w].writes) = "COMPLETED"
            => LET row == reviews'[exec[w].job.reviewId]
               IN /\ row.status = "COMPLETED"
                  /\ row.qualityScore # None
                  /\ row.qualityScore[1] \in 0..100
                  /\ row.issuesFound = Len(exec[w].allIssues)]_vars

---------------------------------------------------------------------------
(* Claims about one job *)

\* The issues the Verifier returned isValid = true for, in verification order
RetainedIssues(e) ==
    LET valid(v) == v.isValid
        kept == SelectSeq(e.verdicts, valid)
    IN [i \in 1..Len(kept) |-> kept[i].issue]

\* The issues of the inline post attempts, in posting order
InlineAttempts(e) ==
    LET inline(x) == x.kind = "inline"
        posts == SelectSeq(e.log, inline)
    IN [i \in 1..Len(posts) |-> posts[i].issue]

GatedIssues(issues) ==
    LET gated(x) == x.severity \in {"critical", "high", "medium"}
    IN SelectSeq(issues, gated)

IsPrefix(s, t) == Len(s) <= Len(t) /\ s = SubSeq(t, 1, Len(s))

\* The execution posted the summary and its final update went through.
ScoredCompletion(w) ==
    /\ exec[w].pc = "returned"
    /\ exec[w].log # <<>>
    /\ Last(exec[w].log).kind = "summary"

\* The review step of the execution is over.
Reviewed(w) == exec[w].pc \in {"summary", "final"} \/ ScoredCompletion(w)

RowOf(w) == reviews[exec[w].job.reviewId]

ClaimedImpact(sev) ==
    CASE sev = "critical" -> 15 [] sev = "high" -> 10 [] sev = "medium" -> 5 [] sev = "low" -> 2

RECURSIVE ClaimedImpactSum(_)
ClaimedImpactSum(issues) ==
    IF issues = <<>> THEN 0
    ELSE ClaimedImpact(Head(issues).severity) + ClaimedImpactSum(Tail(issues))

ClaimedScore(issues) ==
    IF 100 - ClaimedImpactSum(issues) > 0 THEN 100 - ClaimedImpactSum(issues) ELSE 0

\* C5: a job that completes through the batched or the individual path
\* persists qualityScore = max(0, 100 - sum of the impacts of the retained
\* issues), impacts critical 15, high 10, medium 5, low 2.
C5_ScoreFormula ==
    \A w \in Workers :
        ScoredCompletion(w)
          => RowOf(w).qualityScore = Some(ClaimedScore(RetainedIssues(exec[w])))

\* A batched job whose seven critical issues take the score below zero
C5_Witness ==
    \E w \in Workers :
        /\ ScoredCompletion(w)
        /\ exec[w].batchedCalls = 1
        /\ ClaimedImpactSum(RetainedIssues(exec[w])) > 100
        /\ RowOf(w).qualityScore = Some(0)

RECURSIVE ClaimedTotal(_)
ClaimedTotal(chunks) ==
    IF chunks = <<>> THEN 0
    ELSE (Head(chunks).additions + Head(chunks).deletions) + ClaimedTotal(Tail(chunks))

\* C6: with N chunks and totalChangedLines = sum of additions + deletions, a
\* job past the review step has made exactly one reviewMultipleChunks call and
\* no reviewChangedLines call when totalChangedLines <= 500 and N > 1, and
\* otherwise exactly N reviewChangedLines calls and no batched call.
C6_BatchDecision ==
    \A w \in Workers :
        Reviewed(w)
          => LET n == Len(exec[w].chunks)
                 total == ClaimedTotal(exec[w].chunks)
             IN IF total <= 500 /\ n > 1
                THEN exec[w].batchedCalls = 1 /\ exec[w].singleCalls = 0
                ELSE exec[w].singleCalls = n /\ exec[w].batchedCalls = 0

\* Two chunks with exactly 500 changed lines, reviewed by one batched call
C6_Witness ==
    \E w \in Workers :
        /\ exec[w].pc = "final"
        /\ Len(exec[w].chunks) = 2
        /\ ClaimedTotal(exec[w].chunks) = 500
        /\ exec[w].batchedCalls = 1

C8_SummaryLast ==
    \A w \in Workers :
        LET e == exec[w]
        IN \A i \in 1..Len(e.log) :
              e.log[i].kind = "summary"
                => /\ i = Len(e.log)
                   /\ e.pending = <<>>
                   /\ e.batchedCalls + e.singleCalls
                        = (IF e.batchedCalls = 1 THEN 1 ELSE Len(e.chunks))
                   /\ Len(InlineAttempts(e)) = Len(GatedIssues(RetainedIssues(e)))

\* Two inline posts of two chunks, then the summary
C8_Witness ==
    \E w \in Workers :
        /\ exec[w].pc = "final"
        /\ exec[w].singleCalls = 2
        /\ Len(exec[w].log) = 3
        /\ exec[w].log[1].kind = "inline" /\ exec[w].log[2].kind = "inline"
        /\ exec[w].log[1].issue.file # exec[w].log[2].issue.file
        /\ exec[w].log[3].kind = "summary"

\* C9: failed inline posts never fail the job: the error a job fails with is
\* never an inline post's, the other inline posts are still attempted, and the
\* job completes with the score and issuesFound of its retained issues.
C9_InlineFailureNotFatal ==
    \A w \in Workers :
        LET e == exec[w]
            kept == RetainedIssues(e)
        IN /\ e.error # Some("inline")
           /\ e.inlineFailed > 0
                => /\ Reviewed(w) => Len(InlineAttempts(e)) = Len(GatedIssues(kept))
                   /\ ScoredCompletion(w)
                        => /\ RowOf(w).status = "COMPLETED"
                           /\ RowOf(w).qualityScore = Some(ClaimedScore(kept))
                           /\ RowOf(w).issuesFound = Len(kept)

\* A completed job some of whose inline posts failed and some went through,
\* a failed one before a later attempt
C9_Witness ==
    \E w \in Workers :
        /\ ScoredCompletion(w)
        /\ RowOf(w).status = "COMPLETED"
        /\ exec[w].inlineFailed >= 1
        /\ exec[w].inlineFailed < Len(InlineAttempts(exec[w]))

\* C10: with the LLM client disabled a job fetches nothing, calls no LLM and
\* posts nothing, and when it returns it has written PROCESSING then SKIPPED
\* onto the PENDING Review; an execution that wrote SKIPPED has posted nothing.
C10_DisabledSkips ==
    \A w \in Workers :
        LET e == exec[w]
        IN /\ (~enabled /\ e.pc # "idle")
                => /\ e.diffFetches = 0 /\ e.fileFetches = 0
                   /\ e.batchedCalls = 0 /\ e.singleCalls = 0
                   /\ e.log = <<>>
           /\ (~enabled /\ e.pc = "returned")
                => e.writes = <<"PROCESSING", "SKIPPED">> /\ RowOf(w).status = "SKIPPED"
           /\ (\E i \in 1..Len(e.writes) : e.writes[i] = "SKIPPED")
                => ~enabled /\ e.log = <<>>

\* A job that ran with the client disabled and returned
C10_Witness ==
    \E w \in Workers :
        /\ ~enabled
        /\ exec[w].pc = "returned"
        /\ RowOf(w).status = "SKIPPED"

\* The posts of an execution that reached the merge request
PostedInline(e) == Len(InlineAttempts(e)) - e.inlineFailed

PostedSummary(e) == \E i \in 1..Len(e.log) : e.log[i].kind = "summary" /\ e.log[i].ok

\* The execution has ended by writing FAILED.
EndedFailed(w) ==
    /\ exec[w].pc = "thrown"
    /\ exec[w].writes # <<>>
    /\ Last(exec[w].writes) = "FAILED"

\* C11: an execution that ends by setting the Review to FAILED has posted no
\* inline discussion and no summary note.
C11_FailedPostsNothing ==
    \A w \in Workers :
        EndedFailed(w) => PostedInline(exec[w]) = 0 /\ ~PostedSummary(exec[w])

\* The last LLM call of the execution is over and came back without a parsed body.
CallCameBackEmpty(e) ==
    /\ e.llmAttempt = 0
    /\ e.llmLast \in {"error", "empty", "malformed"}

\* C12: an LLM call that fails on every attempt, or whose body cannot be
\* parsed, never raises to the handler: it hands back no issue, the job goes
\* on, and a job that then ends with the final update is COMPLETED.
C12_LlmFailureNotFatal ==
    \A w \in Workers :
        LET e == exec[w]
        IN /\ e.error # Some("llm")
           /\ CallCameBackEmpty(e)
                => /\ e.pending = <<>>
                   /\ e.pc \in {"chunkScore", "chunk", "summary", "final", "catch",
                                "returned", "thrown"}
                   /\ e.pc \in {"catch", "thrown"} => e.error \in {Some("summary"), Some("update")}
                   /\ e.pc = "returned" => RowOf(w).status = "COMPLETED"

\* A job whose only call failed on every attempt and that ended COMPLETED
\* with no issue
C12_Witness ==
    \E w \in Workers :
        /\ ScoredCompletion(w)
        /\ exec[w].llmLast \in {"error", "empty"}
        /\ exec[w].llmInvocations > 1
        /\ RowOf(w).status = "COMPLETED"
        /\ RowOf(w).issuesFound = 0

\* C19: one reviewChangedLines / reviewMultipleChunks call invokes the LLM
\* endpoint at most 3 times.
C19_AtMostThreeInvocations ==
    \A w \in Workers : exec[w].llmInvocations <= 3

\* The step is an endpoint invocation of worker w's running LLM call.
Invokes(w) ==
    /\ exec[w].pc \in {"batch", "chunk"}
    /\ exec'[w] # exec[w]

\* C20: when an invocation comes back with a body that is not the JSON asked
\* for and fewer than 3 invocations have been made, the call makes another
\* invocation instead of returning.
C20_MalformedBodyIsRetried ==
    [][\A w \in Workers :
          (Invokes(w) /\ exec'[w].llmLast = "malformed" /\ exec'[w].llmInvocations < 3)
            => exec'[w].llmAttempt > 0]_vars

\* The step settles worker w's job after its handler threw.
SettlesThrown(w) == exec[w].pc = "thrown" /\ exec'[w].pc = "idle"

\* C13: a job whose handler threw is put back for another attempt while fewer
\* than 3 attempts have been made, and goes to the failed set, with its Review
\* FAILED, only after the third.
C13_ThreeQueueAttempts ==
    [][\A w \in Workers :
          SettlesThrown(w)
            => LET made == exec[w].job.attemptsMade + 1
                   id == exec[w].job.reviewId
               IN IF made < 3
                  THEN \E i \in 1..Len(queue') :
                          queue'[i] = [exec[w].job EXCEPT !.attemptsMade = made]
                  ELSE id \in failedJobs' /\ reviews[id].status = "FAILED"]_vars

\* The jobs that exist for a Review: waiting or running
JobsOf(id) ==
    Cardinality({i \in 1..Len(queue) : queue[i].reviewId = id})
      + Cardinality({w \in Workers : exec[w].pc # "idle" /\ exec[w].job.reviewId = id})

\* C14: when reviewQueue.add fails, processMergeRequest returns the review all
\* the same and the transaction's writes stay; while no delivery has enqueued
\* a job for the Review, it is PENDING and no job exists for it.
C14_EnqueueFailureKeepsReview ==
    \A d \in Deliveries :
        tx[d].enqueue = "failed"
          => /\ tx[d].pc = "returned"
             /\ WebhookResponse(tx[d]) = [http |-> 200, success |-> TRUE,
                                          reviewId |-> Some(tx[d].result)]
             /\ tx[d].result \in 1..Len(reviews)
             /\ reviews[tx[d].result].mr = tx[d].mr
             /\ tx[d].mr[2] \in projects /\ tx[d].user \in developers
             /\ (\A o \in Deliveries : tx[o].result = tx[d].result => tx[o].enqueue # "ok")
                  => /\ reviews[tx[d].result].status = "PENDING"
                     /\ JobsOf(tx[d].result) = 0
                     /\ tx[d].result \notin failedJobs

\* The delivery that created the Review failed to enqueue its job.
C14_Witness ==
    \E d \in Deliveries :
        /\ tx[d].enqueue = "failed"
        /\ tx[d].inserted
        /\ reviews[tx[d].result].status = "PENDING"
        /\ queue = <<>>

\* C15: the guard accepts a request exactly when the token header is present,
\* a secret is configured, and token and secret are the same string.
C15_GuardAcceptsOnlyTheSecret ==
    guard.verdict # "none"
      => (guard.verdict = "accepted"
            <=> /\ guard.token.present
                /\ guard.secret.present
                /\ guard.secret.chars # <<>>
                /\ guard.token.chars = guard.secret.chars)

\* The issues the Verifier returned isValid = false for
DroppedIssues(e) ==
    LET invalid(v) == ~v.isValid
        out == SelectSeq(e.verdicts, invalid)
    IN [i \in 1..Len(out) |-> out[i].issue]

\* C16: issues the Verifier found invalid leave no trace in the outcome of the
\* job: the inline attempts, the summary, reviewContent.issues, issuesFound
\* and qualityScore are those of the job's other issues alone.
C16_InvalidIssuesHaveNoEffect ==
    \A w \in Workers :
        LET e == exec[w]
            kept == RetainedIssues(e)
        IN DroppedIssues(e) # <<>>
             => /\ Len(e.allIssues) <= Len(kept)
                /\ Len(InlineAttempts(e)) <= Len(GatedIssues(kept))
                /\ e.totalScore >= 100 - ClaimedImpactSum(kept)
                /\ ScoredCompletion(w)
                     => /\ Len(InlineAttempts(e)) = Len(GatedIssues(kept))
                        /\ Len(Last(e.log).issues) = Len(kept)
                        /\ Len(RowOf(w).reviewContent.issues) = Len(kept)
                        /\ RowOf(w).issuesFound = Len(kept)
                        /\ RowOf(w).qualityScore = Some(ClaimedScore(kept))
                        /\ RowOf(w).status = "COMPLETED"

\* A job whose only issue, a critical one, was found invalid: no inline post,
\* issuesFound 0, score 100, COMPLETED
C16_Witness ==
    \E w \in Workers :
        /\ ScoredCompletion(w)
        /\ Len(exec[w].verdicts) = 1
        /\ ~exec[w].verdicts[1].isValid
        /\ exec[w].verdicts[1].issue.severity = "critical"
        /\ Len(exec[w].log) = 1
        /\ RowOf(w).issuesFound = 0
        /\ RowOf(w).qualityScore = Some(100)
        /\ RowOf(w).status = "COMPLETED"

\* C17: with n files in the diff, the summary of a job carries the Large MR
\* warning exactly when n > 50; then the chunks come from the first 50 files,
\* skippedFiles = n - 50 and the warning states n files, 50 reviewed.
C17_LargeMrWarning ==
    \A w \in Workers :
        LET e == exec[w]
            n == e.diffCount
        IN \A i \in 1..Len(e.log) :
              e.log[i].kind = "summary"
                => IF n > 50
                   THEN /\ e.skippedFiles = n - 50
                        /\ ChunkFiles(e.chunks) \subseteq {ToString(f) : f \in 1..50}
                        /\ e.log[i].warning = [present |-> TRUE, total |-> n, reviewed |-> 50]
                   ELSE /\ e.skippedFiles = 0
                        /\ ~e.log[i].warning.present

\* The jobs that exist for a Review after the step
JobsLeft(id) ==
    Cardinality({i \in 1..Len(queue') : queue'[i].reviewId = id})
      + Cardinality({v \in Workers : exec'[v].pc # "idle" /\ exec'[v].job.reviewId = id})

\* The step settles worker w's job: its execution has finished.
Settles(w) == exec[w].pc \in {"returned", "thrown"} /\ exec'[w].pc = "idle"

---------------------------------------------------------------------------
(* Claims about the Verifier *)

\* C21: when the forge fetch of a verification fails, verifyIssue returns
\* isValid = true with confidence low, on the import path and on the
\* definition path alike.
C21_FetchFailureDegrades ==
    verifier.called /\ verifier.result.fetch = "failed"
      => verifier.result.isValid /\ verifier.result.confidence = "low"

\* C22: a security or performance issue, whatever its message, comes back
\* isValid = true with confidence high, and the Verifier has consulted neither
\* the imports, nor the context lines, nor the forge.
C22_SecurityAndPerformanceBypass ==
    verifier.called /\ verifier.issue.type \in {"security", "performance"}
      => /\ verifier.result.isValid
         /\ verifier.result.confidence = "high"
         /\ verifier.result.consulted = {}

\* C24: an issue whose message contains 'not defined', 'undefined', 'not
\* declared' or 'cannot find name', and not the word 'import', is handled by
\* the definition path.
C24_DefinitionRouting ==
    LET phrases == verifier.issue.message.phrases
    IN /\ verifier.called
       /\ phrases \cap {"not defined", "undefined", "not declared", "cannot find name"} # {}
       /\ "import" \notin phrases
       => verifier.result.path = "definition"

---------------------------------------------------------------------------
(* Claims about the file context and the diff processor *)

\* C26: every file context getFileContentWithContext returns has
\* startLineNumber <= targetLineNumber <= endLineNumber and
\* endLineNumber - startLineNumber + 1 lines, also for target line 0, a target
\* past the end of the file, and a failed fetch.
C26_FileContextBounds ==
    LET r == fileContext.result
    IN fileContext.called
         => /\ r.startLineNumber <= r.targetLineNumber
            /\ r.targetLineNumber <= r.endLineNumber
            /\ Len(r.lines) = r.endLineNumber - r.startLineNumber + 1

\* The contents of the lines of a chunk text that carry the given mark
Marked(content, mark) ==
    LET has(x) == x.mark = mark
        hits == SelectSeq(content, has)
    IN [k \in 1..Len(hits) |-> hits[k].content]

\* The contents of the lines of a hunk of the given type
OfType(changes, type) ==
    LET is(x) == x.type = type
        hits == SelectSeq(changes, is)
    IN [k \in 1..Len(hits) |-> hits[k].content]

\* C25: in every emitted chunk the '+' lines of the text are the added lines
\* of the hunk with their content, one per entry of changedLines, and every
\* entry of changedLines is a line number >= 1 of the new file; also when the
\* output is longer than the 100-line cap.
C25_ChunkListsItsAdditions ==
    LET p == chunk.processed
    IN chunk.called /\ p.hasChanges
         => /\ Marked(p.content, "+") = OfType(chunk.changes, "add")
            /\ Len(Marked(p.content, "+")) = Len(p.changedLines)
            /\ \A k \in 1..Len(p.changedLines) : p.changedLines[k] >= 1

\* C30: the chunk text has each line of the hunk at most once, and its lines
\* follow one another in the order of the hunk.
C30_ChunkKeepsHunkOrder ==
    LET text == chunk.processed.content
    IN chunk.called
         => \A k, l \in 1..Len(text) : k < l => text[k].from < text[l].from

---------------------------------------------------------------------------
(* Claims about the review step and the end of a job *)

\* C23: when the review step of a job is over, every issue the LLM returned
\* has been passed to the Verifier, and the retained issues are all of them
\* but those the Verifier returned isValid = false for.
C23_EveryIssueIsVerified ==
    \A w \in Workers :
        LET e == exec[w]
        IN Reviewed(w)
             => /\ Len(e.verdicts) = e.reported
                /\ Len(e.allIssues) = e.reported - Len(DroppedIssues(e))

\* The retained issues of one file, in their order in the list
OfFile(issues, filename) ==
    LET mine(x) == x.file = filename
    IN SelectSeq(issues, mine)

SameInlineAndScore ==
    /\ Range(paths.batched.inline) = Range(paths.individual.inline)
    /\ paths.batched.qualityScore = paths.individual.qualityScore
    /\ paths.batched.issuesFound = paths.individual.issuesFound

\* The batched answer lists its issues chunk by chunk, in the chunks' order
InChunkOrder ==
    \A k, l \in 1..Len(paths.issues) :
        k < l => \E i, j \in 1..Len(paths.chunks) :
                    /\ i <= j
                    /\ paths.chunks[i].filename = paths.issues[k].file
                    /\ paths.chunks[j].filename = paths.issues[l].file

\* C27, as stated: on the same chunks, the same issues per file and the same
\* verdicts, the two paths end with the same retained issue list, the same
\* set of inline post attempts, the same qualityScore and the same issuesFound.
C27_PathsAgree ==
    paths.ran
      => /\ paths.batched.allIssues = paths.individual.allIssues
         /\ SameInlineAndScore

\* C27, amended: the two paths retain the same issues file by file, in the
\* same order within a file; the whole list is the same when the batched
\* answer lists its issues in chunk order; the set of inline post attempts,
\* qualityScore and issuesFound are the same.
C27_PathsAgreePerFile ==
    paths.ran
      => /\ \A f \in ChunkFiles(paths.chunks) :
               OfFile(paths.batched.allIssues, f) = OfFile(paths.individual.allIssues, f)
         /\ InChunkOrder => paths.batched.allIssues = paths.individual.allIssues
         /\ SameInlineAndScore

\* A batched answer with an issue of the second chunk before one of the
\* first, both retained: the lists differ in order only
C27_Witness ==
    /\ paths.ran
    /\ ~InChunkOrder
    /\ paths.batched.issuesFound = 2
    /\ paths.batched.allIssues # paths.individual.allIssues
    /\ paths.batched.qualityScore < 100
    /\ paths.batched.inline # <<>>

\* The step ends worker w's execution: the handler returns or throws.
Finishes(w) ==
    /\ exec[w].pc \notin {"returned", "thrown"}
    /\ exec'[w].pc \in {"returned", "thrown"}

\* C28: with every database write succeeding, an execution that returns or
\* throws leaves the Review COMPLETED, SKIPPED or FAILED by its own last
\* write, whichever of its external calls failed.
C28_EndsTerminal ==
    [][\A w \in Workers :
          Finishes(w)
            => /\ reviews'[exec[w].job.reviewId].status \in Terminal
               /\ exec'[w].writes # <<>>
               /\ Last(exec'[w].writes) = reviews'[exec[w].job.reviewId].status]_vars

\* An execution that threw after a failed summary post, with the Review FAILED
C28_Witness ==
    \E w \in Workers :
        /\ exec[w].pc = "thrown"
        /\ exec[w].error = Some("summary")
        /\ exec[w].llmLast \in {"error", "malformed"}
        /\ RowOf(w).status = "FAILED"

\* C29: for a completed job the score the summary note prints is the
\* persisted qualityScore and lies between 0 and 100.
C29_SummaryScoreIsPersistedScore ==
    \A w \in Workers :
        ScoredCompletion(w)
          => /\ RowOf(w).qualityScore = Some(Last(exec[w].log).score)
             /\ Last(exec[w].log).score \in 0..100

====
